---- MODULE Spec2Model ----
(***************************************************************************)
(* Model of the artifact materialization code of LLMStack:                 *)
(*   src/llmstack/processors/providers/promptly/file_operations.py         *)
(*   src/llmstack/processors/providers/meta/chat_completions.py            *)
(*                                                                         *)
(* Text is a sequence of one-character strings, bytes are a sequence of    *)
(* integers 0..255.  A Python value that may be None is an option: <<>>    *)
(* for None and <<v>> for the value v.                                     *)
(***************************************************************************)
EXTENDS Integers, Sequences, FiniteSets, TLC

VARIABLES
    \* create_data_uri and its decoder (SpecCodec)
    cPayload, cMime, cName, cUri, cDecoded, cpc,
    \* FileOperationsInput.validate_input and the direct path (SpecMime)
    mRaw, mInput, mUri, mpc,
    \* the temporary files of the host: the workspace directories and the
    \* archive files that exist, and the number of the next temporary name
    tmpDirs, tmpZips, nextId,
    \* _create_archive run step by step by concurrent builders (SpecArchive)
    listing, bpc, bScope, bIdx, bWs, bId, bErr, bResult,
    \* one FileOperationsProcessor.process call (Spec)
    pc, input, fname, assets, dataUri, archiveName, request, stream,
    error, asset, outputs, output,
    \* what the call has done to its collaborators so far
    listCalls, buildCalls, channelOpen, rpcCalls, uploadCalls, published,
    \* MessagesProcessor calls on one session (SpecChat)
    session_data, retain_history, chat_history, messages, sent, written,
    chatOutput, chatPc, chatError, historyBefore, calls

codecVars == <<cPayload, cMime, cName, cUri, cDecoded, cpc>>
mimeVars == <<mRaw, mInput, mUri, mpc>>
fsVars == <<tmpDirs, tmpZips, nextId>>
builderVars == <<listing, bpc, bScope, bIdx, bWs, bId, bErr, bResult>>

procVars ==
    <<pc, input, fname, assets, dataUri, archiveName, request, stream,
      error, asset, outputs, output,
      listCalls, buildCalls, channelOpen, rpcCalls, uploadCalls, published>>

chatVars ==
    <<session_data, retain_history, chat_history, messages, sent, written,
      chatOutput, chatPc, chatError, historyBefore, calls>>

vars == <<codecVars, mimeVars, fsVars, builderVars, procVars, chatVars>>

(***************************************************************************)
(* Bounds                                                                  *)
(***************************************************************************)
MaxPayload == 3
MaxName == 2
MaxFiles == 2
MaxBuilds == 2
MaxBlobs == 2
MaxResponses == 2
MaxMessages == 2
MaxDeltas == 2
MaxCalls == 2

(***************************************************************************)
(* Text                                                                    *)
(***************************************************************************)
None == <<>>
Some(v) == <<v>>

\* Python truthiness of an optional string: neither None nor "".
Truthy(opt) == opt # None /\ opt[1] # <<>>

NoneText == <<"N", "o", "n", "e">>

\* f"{value}" of an optional string.
Format(opt) == IF opt = None THEN NoneText ELSE opt[1]

SeqsUpTo(S, n) == UNION {[1..k -> S] : k \in 0..n}

StartsWith(s, p) == Len(p) <= Len(s) /\ SubSeq(s, 1, Len(p)) = p

EndsWith(s, p) == Len(p) <= Len(s) /\ SubSeq(s, Len(s) - Len(p) + 1, Len(s)) = p

\* Index of the first occurrence of p in s, 0 when there is none.
Find(s, p) ==
    LET hits == {i \in 1..(Len(s) - Len(p) + 1) : SubSeq(s, i, i + Len(p) - 1) = p}
    IN IF hits = {} THEN 0 ELSE CHOOSE i \in hits : \A j \in hits : i <= j

\* Index of the last occurrence of p in s, 0 when there is none.
FindLast(s, p) ==
    LET hits == {i \in 1..(Len(s) - Len(p) + 1) : SubSeq(s, i, i + Len(p) - 1) = p}
    IN IF hits = {} THEN 0 ELSE CHOOSE i \in hits : \A j \in hits : i >= j

TextPlain == <<"t", "e", "x", "t", "/", "p", "l", "a", "i", "n">>
TextHtml == <<"t", "e", "x", "t", "/", "h", "t", "m", "l">>
TextCss == <<"t", "e", "x", "t", "/", "c", "s", "s">>
AppJavascript == <<"a", "p", "p", "l", "i", "c", "a", "t", "i", "o", "n", "/", "j", "a", "v", "a", "s", "c", "r", "i", "p", "t">>
AppJson == <<"a", "p", "p", "l", "i", "c", "a", "t", "i", "o", "n", "/", "j", "s", "o", "n">>
AppXml == <<"a", "p", "p", "l", "i", "c", "a", "t", "i", "o", "n", "/", "x", "m", "l">>
TextCsv == <<"t", "e", "x", "t", "/", "c", "s", "v">>
TextTsv == <<"t", "e", "x", "t", "/", "t", "a", "b", "-", "s", "e", "p", "a", "r", "a", "t", "e", "d", "-", "v", "a", "l", "u", "e", "s">>
TextMarkdown == <<"t", "e", "x", "t", "/", "m", "a", "r", "k", "d", "o", "w", "n">>
AppOctetStream == <<"a", "p", "p", "l", "i", "c", "a", "t", "i", "o", "n", "/", "o", "c", "t", "e", "t", "-", "s", "t", "r", "e", "a", "m">>
AppZip == <<"a", "p", "p", "l", "i", "c", "a", "t", "i", "o", "n", "/", "z", "i", "p">>
AppPdf == <<"a", "p", "p", "l", "i", "c", "a", "t", "i", "o", "n", "/", "p", "d", "f">>

(***************************************************************************)
(* Base64 (base64.b64encode / base64.b64decode of the standard library, as *)
(* called at file_operations.py lines 94 and 149)                          *)
(***************************************************************************)
B64Alphabet ==
    <<"A", "B", "C", "D", "E", "F", "G", "H", "I", "J", "K", "L", "M",
      "N", "O", "P", "Q", "R", "S", "T", "U", "V", "W", "X", "Y", "Z",
      "a", "b", "c", "d", "e", "f", "g", "h", "i", "j", "k", "l", "m",
      "n", "o", "p", "q", "r", "s", "t", "u", "v", "w", "x", "y", "z",
      "0", "1", "2", "3", "4", "5", "6", "7", "8", "9", "+", "/">>

B64Char(i) == B64Alphabet[i + 1]

IsB64Char(c) == \E i \in 1..Len(B64Alphabet) : B64Alphabet[i] = c

B64Index(c) == (CHOOSE i \in 1..Len(B64Alphabet) : B64Alphabet[i] = c) - 1

RECURSIVE b64encode(_)
b64encode(bytes) ==
    IF Len(bytes) = 0 THEN <<>>
    ELSE IF Len(bytes) = 1 THEN
        <<B64Char(bytes[1] \div 4), B64Char((bytes[1] % 4) * 16), "=", "=">>
    ELSE IF Len(bytes) = 2 THEN
        <<B64Char(bytes[1] \div 4),
          B64Char((bytes[1] % 4) * 16 + bytes[2] \div 16),
          B64Char((bytes[2] % 16) * 4), "=">>
    ELSE
        <<B64Char(bytes[1] \div 4),
          B64Char((bytes[1] % 4) * 16 + bytes[2] \div 16),
          B64Char((bytes[2] % 16) * 4 + bytes[3] \div 64),
          B64Char(bytes[3] % 64)>>
        \o b64encode(SubSeq(bytes, 4, Len(bytes)))

\* The bytes of the sextets q (a sequence of 0..63); a tail of two sextets
\* gives one byte and a tail of three gives two.
RECURSIVE SextetsToBytes(_)
SextetsToBytes(q) ==
    IF Len(q) < 2 THEN <<>>
    ELSE IF Len(q) = 2 THEN <<q[1] * 4 + q[2] \div 16>>
    ELSE IF Len(q) = 3 THEN
        <<q[1] * 4 + q[2] \div 16, (q[2] % 16) * 16 + q[3] \div 4>>
    ELSE
        <<q[1] * 4 + q[2] \div 16, (q[2] % 16) * 16 + q[3] \div 4,
          (q[3] % 4) * 64 + q[4]>>
        \o SextetsToBytes(SubSeq(q, 5, Len(q)))

\* base64.b64decode(text) with validate=False: characters outside the
\* alphabet are discarded; a last group of one character, or of two or three
\* characters without its padding, is binascii.Error.  Padding is read as a
\* count, which is exact for text whose "=" are trailing.
b64decode(text) ==
    LET data == SelectSeq(text, IsB64Char)
        pads == Len(SelectSeq(text, LAMBDA c : c = "="))
        tail == Len(data) % 4
        q == [i \in 1..Len(data) |-> B64Index(data[i])]
    IN IF tail = 1 \/ (tail = 2 /\ pads < 2) \/ (tail = 3 /\ pads < 1)
       THEN [ok |-> FALSE, bytes |-> <<>>]
       ELSE [ok |-> TRUE, bytes |-> SextetsToBytes(q)]

(***************************************************************************)
(* Data URI codec                                                          *)
(***************************************************************************)
DataPrefix == <<"d", "a", "t", "a", ":">>
NameSegment == <<";", "n", "a", "m", "e", "=">>
Base64Segment == <<";", "b", "a", "s", "e", "6", "4">>

\* A faulty variant of create_data_uri: the base64 marker is written before the name.
create_data_uri_marker_first(data, mime_type, base64_encode, filename) ==
    DataPrefix \o Format(mime_type)
        \o (IF base64_encode THEN Base64Segment ELSE <<>>)
        \o (IF Truthy(filename) THEN NameSegment \o filename[1] ELSE <<>>)
        \o <<",">>
        \o (IF base64_encode THEN b64encode(data) ELSE data)

\* create_data_uri(data, mime_type, base64_encode, filename); mime_type and
\* filename are options, data is bytes when base64_encode and text otherwise.
create_data_uri(data, mime_type, base64_encode, filename) ==
    DataPrefix \o Format(mime_type)
        \o (IF Truthy(filename) THEN NameSegment \o filename[1] ELSE <<>>)
        \o (IF base64_encode THEN Base64Segment ELSE <<>>)
        \o <<",">>
        \o (IF base64_encode THEN b64encode(data) ELSE data)

\* The reading of data:{mimeType}[;name={filename}][;base64],{payload}:
\* the header ends at the first comma, a trailing ;base64 is the encoding
\* marker, the first ;name= starts the filename.
ParseDataUri(uri) ==
    LET rest == SubSeq(uri, Len(DataPrefix) + 1, Len(uri))
        comma == Find(rest, <<",">>)
        header == SubSeq(rest, 1, comma - 1)
        isB64 == EndsWith(header, Base64Segment)
        head == IF isB64 THEN SubSeq(header, 1, Len(header) - Len(Base64Segment))
                ELSE header
        at == Find(head, NameSegment)
    IN IF ~StartsWith(uri, DataPrefix) \/ comma = 0
       THEN [ok |-> FALSE, mime |-> <<>>, name |-> None, base64 |-> FALSE,
             payload |-> <<>>]
       ELSE [ok |-> TRUE,
             mime |-> IF at = 0 THEN head ELSE SubSeq(head, 1, at - 1),
             name |-> IF at = 0 THEN None
                      ELSE Some(SubSeq(head, at + Len(NameSegment), Len(head))),
             base64 |-> isB64,
             payload |-> SubSeq(rest, comma + 1, Len(rest))]

\* decode(uri) -> (mimeType, filename?, rawBytes), MalformedURI otherwise.
DecodeDataUri(uri) ==
    LET p == ParseDataUri(uri)
        d == b64decode(p.payload)
    IN IF ~p.ok \/ (p.base64 /\ ~d.ok)
       THEN [ok |-> FALSE, mime |-> <<>>, name |-> None, data |-> <<>>]
       ELSE [ok |-> TRUE, mime |-> p.mime, name |-> p.name,
             data |-> IF p.base64 THEN d.bytes ELSE p.payload]

(***************************************************************************)
(* _create_archive                                                         *)
(***************************************************************************)
\* A workspace: the directories and the files below the temporary directory.
EmptyWorkspace == [dirs |-> {}, files |-> <<>>]

\* os.path.dirname(name)
dirname(name) == SubSeq(name, 1, FindLast(name, <<"/">>) - 1)

\* The directory d and every directory above it.
DirChain(d) ==
    {d} \cup {SubSeq(d, 1, i - 1) : i \in {j \in 2..Len(d) : d[j] = "/"}}

\* validate_parse_data_uri(data_uri): (mime_type, file_name, payload text),
\* an exception on a malformed URI.
validate_parse_data_uri(data_uri) == ParseDataUri(data_uri)

\* A faulty variant of ArchiveEntry: the directory filter of line 139 is dropped.
ArchiveEntryNoFilter(ws, file, directory) ==
    LET name == file.name
        dir == dirname(name)
        exists == dir \in ws.dirs \/ dir \in DOMAIN ws.files
        mustMake == dir # <<>> /\ ~exists
        blocked == \E a \in DirChain(dir) : a \in DOMAIN ws.files
        dirs1 == IF mustMake /\ ~blocked THEN ws.dirs \cup DirChain(dir)
                 ELSE ws.dirs
        ws1 == [ws EXCEPT !.dirs = dirs1]
        parsed == validate_parse_data_uri(file.data_uri)
        decoded == b64decode(parsed.payload)
    IN IF mustMake /\ blocked THEN [ws |-> ws, error |-> "IOError"]
       ELSE IF ~parsed.ok \/ ~decoded.ok THEN [ws |-> ws1, error |-> "DecodeError"]
       ELSE IF name \in dirs1 \/ (dir # <<>> /\ dir \notin dirs1)
       THEN [ws |-> ws1, error |-> "IOError"]
       ELSE [ws |-> [dirs |-> dirs1,
                     files |-> [p \in DOMAIN ws.files \cup {name} |->
                                  IF p = name THEN decoded.bytes ELSE ws.files[p]]],
             error |-> ""]

\* One iteration of the loop over files (lines 137-152): the workspace after
\* it and the exception that ended it ("" for none).
ArchiveEntry(ws, file, directory) ==
    LET name == file.name
        dir == dirname(name)
        exists == dir \in ws.dirs \/ dir \in DOMAIN ws.files
        mustMake == dir # <<>> /\ ~exists
        blocked == \E a \in DirChain(dir) : a \in DOMAIN ws.files
        dirs1 == IF mustMake /\ ~blocked THEN ws.dirs \cup DirChain(dir)
                 ELSE ws.dirs
        ws1 == [ws EXCEPT !.dirs = dirs1]
        parsed == validate_parse_data_uri(file.data_uri)
        decoded == b64decode(parsed.payload)
    IN IF directory # <<>> /\ ~StartsWith(name, directory)
       THEN [ws |-> ws, error |-> ""]
       ELSE IF mustMake /\ blocked THEN [ws |-> ws, error |-> "IOError"]
       ELSE IF ~parsed.ok \/ ~decoded.ok THEN [ws |-> ws1, error |-> "DecodeError"]
       ELSE IF name \in dirs1 \/ (dir # <<>> /\ dir \notin dirs1)
       THEN [ws |-> ws1, error |-> "IOError"]
       ELSE [ws |-> [dirs |-> dirs1,
                     files |-> [p \in DOMAIN ws.files \cup {name} |->
                                  IF p = name THEN decoded.bytes ELSE ws.files[p]]],
             error |-> ""]

\* A faulty variant of ArchiveEntries: an entry that raises is skipped and the loop
\* goes on.
ArchiveEntriesSkipBad(ws, files, i, directory) ==
    LET after[k \in (i - 1)..Len(files)] ==
            IF k = i - 1 THEN [ws |-> ws, error |-> ""]
            ELSE LET r == ArchiveEntry(after[k - 1].ws, files[k], directory)
                 IN IF r.error # "" THEN after[k - 1] ELSE r
    IN after[Len(files)]

\* The loop over files from entry i on: after[k] is the workspace once entry
\* k is done, and the exception that ended the loop at or before it.
ArchiveEntries(ws, files, i, directory) ==
    LET after[k \in (i - 1)..Len(files)] ==
            IF k = i - 1 THEN [ws |-> ws, error |-> ""]
            ELSE IF after[k - 1].error # "" THEN after[k - 1]
            ELSE ArchiveEntry(after[k - 1].ws, files[k], directory)
    IN after[Len(files)]

\* The temporary directory's path, named by the number of the temporary name.
IdChars == <<"1", "2", "3", "4", "5", "6">>
TempDirPath(id) == <<"/", "t", "/", IdChars[id]>>
ZipSuffix == <<".", "z", "i", "p">>

\* f"{temp_archive_dir}.zip".replace("/", "_")
ArchiveName(id) ==
    LET path == TempDirPath(id) \o ZipSuffix
    IN [i \in 1..Len(path) |-> IF path[i] = "/" THEN "_" ELSE path[i]]

\* shutil.make_archive(temp_archive_dir, "zip", temp_archive_dir): the archive
\* file temp_archive_dir + ".zip", beside the temporary directory, holds the
\* workspace's tree.
make_archive(zips, id, ws) ==
    [k \in DOMAIN zips \cup {id} |-> IF k = id THEN ws ELSE zips[k]]

\* TemporaryDirectory.__exit__: the directory and what is below it are removed.
TemporaryDirectoryExit(dirs, id) == dirs \ {id}

\* The archive files after the with block is left: the block removes the
\* temporary directory only, and no line of _create_archive removes the file
\* written beside it.
ZipsAfterExit(zips, id) == zips

CharCode(c) ==
    CASE c = "/" -> 47 [] c = "d" -> 100 [] c = "h" -> 104 [] c = "i" -> 105
      [] c = "o" -> 111 [] c = "r" -> 114 [] c = "x" -> 120 [] OTHER -> 63

\* text.encode("utf-8") of text in the ASCII range
Utf8(text) == [i \in 1..Len(text) |-> CharCode(text[i])]

RECURSIVE LexLeq(_, _)
LexLeq(a, b) ==
    IF a = <<>> THEN TRUE
    ELSE IF b = <<>> THEN FALSE
    ELSE IF CharCode(a[1]) # CharCode(b[1]) THEN CharCode(a[1]) < CharCode(b[1])
    ELSE LexLeq(Tail(a), Tail(b))

RECURSIVE SortNames(_)
SortNames(S) ==
    IF S = {} THEN <<>>
    ELSE LET m == CHOOSE x \in S : \A y \in S : LexLeq(x, y)
         IN <<m>> \o SortNames(S \ {m})

\* The bytes of the archive file: the container's signature, then each member
\* in name order as length-prefixed path and length-prefixed data (a stand-in
\* for the zip layout that keeps the members and their bytes).
RECURSIVE ZipMembers(_, _)
ZipMembers(names, files) ==
    IF names = <<>> THEN <<>>
    ELSE LET n == Head(names)
         IN <<Len(n)>> \o [i \in 1..Len(n) |-> CharCode(n[i])]
              \o <<Len(files[n])>> \o files[n]
              \o ZipMembers(Tail(names), files)

ZipBytes(archive) ==
    <<80, 75>> \o ZipMembers(SortNames(DOMAIN archive.files), archive.files)

NoResult == [uri |-> <<>>, archive_name |-> <<>>, archive |-> EmptyWorkspace]

\* Lines 159-165: the archive file is read back and wrapped; archive is the
\* tree the bytes read hold.
ReadArchive(zips, id) ==
    [uri |-> create_data_uri(ZipBytes(zips[id]), Some(AppZip), TRUE,
                             Some(ArchiveName(id))),
     archive_name |-> ArchiveName(id),
     archive |-> zips[id]]

\* _create_archive(files, directory) as one call: the exception it raises
\* ("" for none), the archive files it leaves and what it returns.
_create_archive(files, directory, zips, id) ==
    LET r == ArchiveEntries(EmptyWorkspace, files, 1, directory)
        made == make_archive(zips, id, r.ws)
    IN IF r.error # ""
       THEN [error |-> r.error, zips |-> ZipsAfterExit(zips, id),
             result |-> NoResult]
       ELSE [error |-> "", zips |-> ZipsAfterExit(made, id),
             result |-> ReadArchive(made, id)]

\* The session listing: entries with distinct names, each holding a base64
\* data URI, the last one with a payload that is no base64 text.
EntryNames == {<<"d", "/", "r">>, <<"o", "/", "x">>, <<"d">>}
EntryUris ==
    {create_data_uri(<<104>>, Some(TextPlain), TRUE, Some(<<"f">>)),
     create_data_uri(<<1, 2, 3, 4>>, Some(AppOctetStream), TRUE, Some(<<"g">>)),
     DataPrefix \o TextPlain \o NameSegment \o <<"f">> \o Base64Segment
        \o <<",", "Q">>}
Entries == [name : EntryNames, data_uri : EntryUris]
Listings ==
    {l \in SeqsUpTo(Entries, MaxFiles) :
        \A i, j \in 1..Len(l) : l[i].name = l[j].name => i = j}
Scopes == {<<>>, <<"d", "/">>}
Builders == {"b1", "b2"}

FsInit ==
    /\ tmpDirs = {}
    /\ tmpZips = <<>>
    /\ nextId = 1

BuilderIdle ==
    /\ listing = <<>>
    /\ bpc = <<>>
    /\ bScope = <<>>
    /\ bIdx = <<>>
    /\ bWs = <<>>
    /\ bId = <<>>
    /\ bErr = <<>>
    /\ bResult = <<>>

(***************************************************************************)
(* The part of the state a specification does not use stays at these values *)
(***************************************************************************)
NotDecoded == [ok |-> FALSE, mime |-> <<>>, name |-> None, data |-> <<>>]

CodecIdle ==
    /\ cPayload = <<>>
    /\ cMime = <<>>
    /\ cName = None
    /\ cUri = <<>>
    /\ cDecoded = NotDecoded
    /\ cpc = "off"

NoInput ==
    [content |-> <<>>, filename |-> None, directory |-> None,
     archive |-> FALSE, mimetype |-> None, export_as |-> None]

MimeIdle ==
    /\ mRaw = NoInput
    /\ mInput = NoInput
    /\ mUri = <<>>
    /\ mpc = "off"

ProcIdle ==
    /\ pc = "off"
    /\ input = NoInput
    /\ fname = <<>>
    /\ assets = None
    /\ dataUri = None
    /\ archiveName = <<>>
    /\ request = <<>>
    /\ stream = <<>>
    /\ error = ""
    /\ asset = None
    /\ outputs = <<>>
    /\ output = None
    /\ listCalls = 0
    /\ buildCalls = 0
    /\ channelOpen = FALSE
    /\ rpcCalls = 0
    /\ uploadCalls = 0
    /\ published = <<>>

ChatIdle ==
    /\ session_data = None
    /\ retain_history = FALSE
    /\ chat_history = <<>>
    /\ messages = <<>>
    /\ sent = <<>>
    /\ written = <<>>
    /\ chatOutput = None
    /\ chatPc = "off"
    /\ chatError = ""
    /\ historyBefore = <<>>
    /\ calls = 0

(***************************************************************************)
(* FileOperationsInput and its root validator                              *)
(***************************************************************************)
Txt == <<"t", "x", "t">>
Html == <<"h", "t", "m", "l">>
Css == <<"c", "s", "s">>
Js == <<"j", "s">>
Json == <<"j", "s", "o", "n">>
Xml == <<"x", "m", "l">>
Csv == <<"c", "s", "v">>
Tsv == <<"t", "s", "v">>
Md == <<"m", "d">>

_mime_type_from_file_ext(ext) ==
    IF ext = Txt THEN TextPlain
    ELSE IF ext = Html THEN TextHtml
    ELSE IF ext = Css THEN TextCss
    ELSE IF ext = Js THEN AppJavascript
    ELSE IF ext = Json THEN AppJson
    ELSE IF ext = Xml THEN AppXml
    ELSE IF ext = Csv THEN TextCsv
    ELSE IF ext = Tsv THEN TextTsv
    ELSE IF ext = Md THEN TextMarkdown
    ELSE AppOctetStream

\* filename.split(".")[-1]: the text after the last dot, the whole filename
\* when it holds no dot.
LastDotPart(filename) ==
    SubSeq(filename, FindLast(filename, <<".">>) + 1, Len(filename))

\* The root validator: values is the record of the input's fields.
validate_input(values) ==
    IF ~Truthy(values.mimetype) /\ Truthy(values.filename)
    THEN [values EXCEPT
            !.mimetype = Some(_mime_type_from_file_ext(LastDotPart(values.filename[1])))]
    ELSE values

\* str(uuid.uuid4()): a fresh random name.
Uuids == {<<"u", "1">>, <<"u", "2">>}

\* The direct path of process (no export_as): the data URI of the content at
\* directory/filename.
DirectDataUri(in, uuid) ==
    LET filename == IF Truthy(in.filename) THEN in.filename[1] ELSE uuid
        directory == IF Truthy(in.directory) THEN in.directory[1] ELSE <<>>
        full_file_path == IF directory # <<>> THEN directory \o <<"/">> \o filename
                          ELSE filename
    IN create_data_uri(Utf8(in.content), in.mimetype, TRUE, Some(full_file_path))

(***************************************************************************)
(* SpecMime: validation of bounded inputs, then the direct data URI        *)
(***************************************************************************)
MimeStems == {<<>>, <<"a">>, <<"a", ".", "b">>}
MimeExts == {Txt, Html, Css, Js, Json, Xml, Csv, Tsv, Md,
             <<"b", "i", "n">>, <<"T", "X", "T">>, <<>>}
MimeFilenames ==
    {None} \cup {Some(s \o d \o e) : s \in MimeStems, d \in {<<>>, <<".">>},
                                     e \in MimeExts}
MimeGiven == {None, Some(<<>>), Some(TextCss)}

MimeInit ==
    /\ \E f \in MimeFilenames, m \in MimeGiven :
         mRaw = [content |-> <<"h", "i">>, filename |-> f, directory |-> None,
                 archive |-> FALSE, mimetype |-> m, export_as |-> None]
    /\ mInput = NoInput
    /\ mUri = <<>>
    /\ mpc = "raw"

MimeValidate ==
    /\ mpc = "raw"
    /\ mInput' = validate_input(mRaw)
    /\ mpc' = "validated"
    /\ UNCHANGED <<mRaw, mUri>>
    /\ UNCHANGED <<codecVars, fsVars, builderVars, procVars, chatVars>>

MimeEncodeDirect ==
    /\ mpc = "validated"
    /\ \E u \in Uuids : mUri' = DirectDataUri(mInput, u)
    /\ mpc' = "encoded"
    /\ UNCHANGED <<mRaw, mInput>>
    /\ UNCHANGED <<codecVars, fsVars, builderVars, procVars, chatVars>>

MimeNext == MimeValidate \/ MimeEncodeDirect

(***************************************************************************)
(* SpecCodec: create_data_uri applied to bounded inputs, then decoded       *)
(***************************************************************************)
CodecBytes == {0, 77, 255}
CodecPayloads == SeqsUpTo(CodecBytes, MaxPayload)
CodecNameChars == {"a", ",", ";"}
CodecNames == {None} \cup {Some(n) : n \in SeqsUpTo(CodecNameChars, MaxName)}
CodecMimes == {<<>>, TextPlain, <<"t", ";", "x">>, <<"t">> \o NameSegment \o <<"a">>}

CodecInit ==
    /\ cPayload \in CodecPayloads
    /\ cMime \in CodecMimes
    /\ cName \in CodecNames
    /\ cUri = <<>>
    /\ cDecoded = NotDecoded
    /\ cpc = "input"

Encode ==
    /\ cpc = "input"
    /\ cUri' = create_data_uri(cPayload, Some(cMime), TRUE, cName)
    /\ cpc' = "encoded"
    /\ UNCHANGED <<cPayload, cMime, cName, cDecoded>>
    /\ UNCHANGED <<mimeVars, fsVars, builderVars, procVars, chatVars>>

Decode ==
    /\ cpc = "encoded"
    /\ cDecoded' = DecodeDataUri(cUri)
    /\ cpc' = "decoded"
    /\ UNCHANGED <<cPayload, cMime, cName, cUri>>
    /\ UNCHANGED <<mimeVars, fsVars, builderVars, procVars, chatVars>>

CodecNext == Encode \/ Decode

(***************************************************************************)
(* SpecArchive: concurrent builders run _create_archive over one session   *)
(* listing, one step per loop iteration                                    *)
(***************************************************************************)
ArchiveInit ==
    /\ listing \in Listings
    /\ bpc = [b \in Builders |-> "idle"]
    /\ bScope = [b \in Builders |-> <<>>]
    /\ bIdx = [b \in Builders |-> 0]
    /\ bWs = [b \in Builders |-> EmptyWorkspace]
    /\ bId = [b \in Builders |-> 0]
    /\ bErr = [b \in Builders |-> ""]
    /\ bResult = [b \in Builders |-> NoResult]

\* with tempfile.TemporaryDirectory() as temp_archive_dir
BuildEnter(b) ==
    /\ bpc[b] = "idle"
    /\ nextId <= MaxBuilds
    /\ \E s \in Scopes : bScope' = [bScope EXCEPT ![b] = s]
    /\ bId' = [bId EXCEPT ![b] = nextId]
    /\ nextId' = nextId + 1
    /\ tmpDirs' = tmpDirs \cup {nextId}
    /\ bWs' = [bWs EXCEPT ![b] = EmptyWorkspace]
    /\ bIdx' = [bIdx EXCEPT ![b] = 1]
    /\ bErr' = [bErr EXCEPT ![b] = ""]
    /\ bResult' = [bResult EXCEPT ![b] = NoResult]
    /\ bpc' = [bpc EXCEPT ![b] = "loop"]
    /\ UNCHANGED <<listing, tmpZips>>
    /\ UNCHANGED <<codecVars, mimeVars, procVars, chatVars>>

\* one iteration of "for file in files"
BuildEntry(b) ==
    /\ bpc[b] = "loop"
    /\ bIdx[b] <= Len(listing)
    /\ LET r == ArchiveEntry(bWs[b], listing[bIdx[b]], bScope[b])
       IN /\ bWs' = [bWs EXCEPT ![b] = r.ws]
          /\ bErr' = [bErr EXCEPT ![b] = r.error]
          /\ bIdx' = [bIdx EXCEPT ![b] = IF r.error = "" THEN @ + 1 ELSE @]
          /\ bpc' = [bpc EXCEPT ![b] = IF r.error = "" THEN "loop" ELSE "unwind"]
    /\ UNCHANGED <<listing, bScope, bId, bResult>>
    /\ UNCHANGED <<codecVars, mimeVars, fsVars, procVars, chatVars>>

\* shutil.make_archive(temp_archive_dir, "zip", temp_archive_dir)
BuildMakeArchive(b) ==
    /\ bpc[b] = "loop"
    /\ bIdx[b] > Len(listing)
    /\ tmpZips' = make_archive(tmpZips, bId[b], bWs[b])
    /\ bpc' = [bpc EXCEPT ![b] = "read"]
    /\ UNCHANGED <<listing, bScope, bIdx, bWs, bId, bErr, bResult>>
    /\ UNCHANGED <<codecVars, mimeVars, tmpDirs, nextId, procVars, chatVars>>

\* open(f"{temp_archive_dir}.zip", "rb"), read, create_data_uri
BuildReadArchive(b) ==
    /\ bpc[b] = "read"
    /\ bResult' = [bResult EXCEPT ![b] = ReadArchive(tmpZips, bId[b])]
    /\ bpc' = [bpc EXCEPT ![b] = "exit"]
    /\ UNCHANGED <<listing, bScope, bIdx, bWs, bId, bErr>>
    /\ UNCHANGED <<codecVars, mimeVars, fsVars, procVars, chatVars>>

\* the end of the with block, by return or by exception
BuildExit(b) ==
    /\ bpc[b] \in {"exit", "unwind"}
    /\ tmpDirs' = TemporaryDirectoryExit(tmpDirs, bId[b])
    /\ tmpZips' = ZipsAfterExit(tmpZips, bId[b])
    /\ bpc' = [bpc EXCEPT ![b] = IF bpc[b] = "exit" THEN "returned" ELSE "raised"]
    /\ UNCHANGED <<listing, bScope, bIdx, bWs, bId, bErr, bResult, nextId>>
    /\ UNCHANGED <<codecVars, mimeVars, procVars, chatVars>>

\* the builder is called again
BuildAgain(b) ==
    /\ bpc[b] \in {"returned", "raised"}
    /\ nextId <= MaxBuilds
    /\ bpc' = [bpc EXCEPT ![b] = "idle"]
    /\ UNCHANGED <<listing, bScope, bIdx, bWs, bId, bErr, bResult>>
    /\ UNCHANGED <<codecVars, mimeVars, fsVars, procVars, chatVars>>

ArchiveNext ==
    \E b \in Builders :
        \/ BuildEnter(b)
        \/ BuildEntry(b)
        \/ BuildMakeArchive(b)
        \/ BuildReadArchive(b)
        \/ BuildExit(b)
        \/ BuildAgain(b)

(***************************************************************************)
(* Spec: one FileOperationsProcessor.process call                          *)
(***************************************************************************)
Pdf == <<"p", "d", "f">>
Docx == <<"d", "o", "c", "x">>
PdfSuffix == <<".", "p", "d", "f">>
ObjRef == <<"o", "b", "j", "r", "e", "f">>
NoFilesText == <<"No files found to create an archive">>
ArchiveCreatedText == <<"Archive created with contents from directory">>

Contents == {<<>>, <<"h">>}
Filenames == {None, Some(<<"a", ".", "t", "x", "t">>)}
Directories == {None, Some(<<"d", "/">>)}
Mimetypes == {None, Some(TextCss)}
ExportAs == {None, Some(Pdf), Some(Docx)}

\* _get_all_session_assets(include_name=True, include_data=True): nothing,
\* or the assets of the session.
SessionResults == {None} \cup {Some(l) : l \in Listings}

\* The responses of the rendering service: each holds its files' data.
Blobs == {<<1>>, <<2, 3>>}
Responses == SeqsUpTo(Blobs, MaxBlobs)
RpcStreams == SeqsUpTo(Responses, MaxResponses)

\* The fields FileOperationsConfiguration declares (lines 121-122).
FileOperationsConfigurationFields == {}

\* Line 253: the message of the ValueError reads self._config.export_as.
UnsupportedExportError ==
    IF "export_as" \in FileOperationsConfigurationFields
    THEN "ValueError: Unsupported export_as type"
    ELSE "AttributeError: export_as"

\* Lines 247-251: the loop over the response stream, data_uri so far in acc.
RECURSIVE ConsumeResponses(_, _, _)
ConsumeResponses(responses, acc, name) ==
    IF responses = <<>> THEN [error |-> "", data_uri |-> acc]
    ELSE IF Head(responses) = <<>> THEN [error |-> "IndexError", data_uri |-> acc]
    ELSE ConsumeResponses(Tail(responses),
                          Some(create_data_uri(Head(responses)[1], Some(AppPdf),
                                               TRUE, Some(name))),
                          name)

\* output_stream.finalize(): the one result of the chunks written.
finalize(chunks) == IF chunks = <<>> THEN None ELSE Some(chunks[Len(chunks)])

Directory == IF Truthy(input.directory) THEN input.directory[1] ELSE <<>>

ArchiveBranch == ~Truthy(Some(input.content)) /\ input.archive
ContentBranch == Truthy(Some(input.content)) /\ ~input.archive

ProcInit ==
    /\ pc = "idle"
    /\ input = NoInput
    /\ fname = <<>>
    /\ assets = None
    /\ dataUri = None
    /\ archiveName = <<>>
    /\ request = <<>>
    /\ stream = <<>>
    /\ error = ""
    /\ asset = None
    /\ outputs = <<>>
    /\ output = None
    /\ listCalls = 0
    /\ buildCalls = 0
    /\ channelOpen = FALSE
    /\ rpcCalls = 0
    /\ uploadCalls = 0
    /\ published = <<>>

Others == <<codecVars, mimeVars, builderVars, chatVars>>

\* Lines 196-201: the input (validated when it was built) and the filename.
ProcessBegin ==
    /\ pc = "idle"
    /\ \E c \in Contents, f \in Filenames, d \in Directories, a \in BOOLEAN,
          m \in Mimetypes, e \in ExportAs, u \in Uuids :
         /\ input' = validate_input([content |-> c, filename |-> f,
                                     directory |-> d, archive |-> a,
                                     mimetype |-> m, export_as |-> e])
         /\ fname' = IF Truthy(f) THEN f[1] ELSE u
    /\ pc' = "dispatch"
    /\ UNCHANGED <<assets, dataUri, archiveName, request, stream, error, asset,
                   outputs, output, listCalls, buildCalls, channelOpen,
                   rpcCalls, uploadCalls, published>>
    /\ UNCHANGED <<Others, fsVars>>

\* Line 206
GetSessionAssets ==
    /\ pc = "dispatch"
    /\ ArchiveBranch
    /\ assets' \in SessionResults
    /\ listCalls' = listCalls + 1
    /\ pc' = "listed"
    /\ UNCHANGED <<input, fname, dataUri, archiveName, request, stream, error,
                   asset, outputs, output, buildCalls, channelOpen, rpcCalls,
                   uploadCalls, published>>
    /\ UNCHANGED <<Others, fsVars>>

\* Lines 207-208
BuildArchive ==
    /\ pc = "listed"
    /\ assets # None /\ Len(assets[1]) > 0
    /\ LET r == _create_archive(assets[1], Directory, tmpZips, nextId)
       IN /\ tmpZips' = r.zips
          /\ tmpDirs' = TemporaryDirectoryExit(tmpDirs \cup {nextId}, nextId)
          /\ nextId' = nextId + 1
          /\ dataUri' = IF r.error = "" THEN Some(r.result.uri) ELSE None
          /\ archiveName' = r.result.archive_name
          /\ error' = r.error
          /\ pc' = IF r.error = "" THEN "upload" ELSE "error"
    /\ buildCalls' = buildCalls + 1
    /\ UNCHANGED <<input, fname, assets, request, stream, asset, outputs,
                   output, listCalls, channelOpen, rpcCalls, uploadCalls,
                   published>>
    /\ UNCHANGED Others

\* Lines 219-228
WriteNoFiles ==
    /\ pc = "listed"
    /\ ~(assets # None /\ Len(assets[1]) > 0)
    /\ outputs' = Append(outputs, [directory |-> Directory, filename |-> fname,
                                   objref |-> None, archive |-> TRUE,
                                   text |-> NoFilesText])
    /\ pc' = "finalize"
    /\ UNCHANGED <<input, fname, assets, dataUri, archiveName, request, stream,
                   error, asset, output, listCalls, buildCalls, channelOpen,
                   rpcCalls, uploadCalls, published>>
    /\ UNCHANGED <<Others, fsVars>>

\* Lines 231-232 and 252-253
UnsupportedExport ==
    /\ pc = "dispatch"
    /\ ContentBranch
    /\ Truthy(input.export_as) /\ input.export_as[1] # Pdf
    /\ error' = UnsupportedExportError
    /\ pc' = "error"
    /\ UNCHANGED <<input, fname, assets, dataUri, archiveName, request, stream,
                   asset, outputs, output, listCalls, buildCalls, channelOpen,
                   rpcCalls, uploadCalls, published>>
    /\ UNCHANGED <<Others, fsVars>>

\* Lines 233-243
OpenChannel ==
    /\ pc = "dispatch"
    /\ ContentBranch
    /\ Truthy(input.export_as) /\ input.export_as[1] = Pdf
    /\ channelOpen' = TRUE
    /\ \E u \in Uuids :
         request' = [filename |-> IF Truthy(input.filename) THEN input.filename[1]
                                  ELSE u \o PdfSuffix,
                     mime_type |-> "PDF", html |-> input.content]
    /\ pc' = "rpc"
    /\ UNCHANGED <<input, fname, assets, dataUri, archiveName, stream, error,
                   asset, outputs, output, listCalls, buildCalls, rpcCalls,
                   uploadCalls, published>>
    /\ UNCHANGED <<Others, fsVars>>

\* Lines 244-251, then 264 and 276-277 for a data_uri that was never set
GetWordProcessor ==
    /\ pc = "rpc"
    /\ rpcCalls' = rpcCalls + 1
    /\ \E s \in RpcStreams, transportFails \in BOOLEAN :
         LET r == ConsumeResponses(s, None, request.filename)
         IN /\ stream' = s
            /\ error' = IF transportFails THEN "RpcError"
                        ELSE IF r.error # "" THEN r.error
                        ELSE IF ~Truthy(r.data_uri)
                        THEN "ValueError: Failed to create data uri"
                        ELSE ""
            /\ dataUri' = IF error' = "" THEN r.data_uri ELSE None
            /\ pc' = IF error' = "" THEN "upload" ELSE "error"
    /\ UNCHANGED <<input, fname, assets, archiveName, request, asset, outputs,
                   output, listCalls, buildCalls, channelOpen, uploadCalls,
                   published>>
    /\ UNCHANGED <<Others, fsVars>>

\* Lines 254-262
EncodeDirect ==
    /\ pc = "dispatch"
    /\ ContentBranch
    /\ ~Truthy(input.export_as)
    /\ dataUri' = Some(DirectDataUri(input, fname))
    /\ pc' = "upload"
    /\ UNCHANGED <<input, fname, assets, archiveName, request, stream, error,
                   asset, outputs, output, listCalls, buildCalls, channelOpen,
                   rpcCalls, uploadCalls, published>>
    /\ UNCHANGED <<Others, fsVars>>

\* Neither branch of lines 205 and 229 is taken.
FallThrough ==
    /\ pc = "dispatch"
    /\ ~ArchiveBranch /\ ~ContentBranch
    /\ pc' = "finalize"
    /\ UNCHANGED <<input, fname, assets, dataUri, archiveName, request, stream,
                   error, asset, outputs, output, listCalls, buildCalls,
                   channelOpen, rpcCalls, uploadCalls, published>>
    /\ UNCHANGED <<Others, fsVars>>

\* Lines 209 and 265: asset = self._upload_asset_from_url(asset=uri); the
\* publisher returns a reference or raises.
UploadResult(uri, succeeds) ==
    IF succeeds
    THEN [error |-> "", asset |-> Some(ObjRef), published |-> <<uri>>]
    ELSE [error |-> "PublishError", asset |-> None, published |-> <<>>]

UploadAsset ==
    /\ pc = "upload"
    /\ uploadCalls' = uploadCalls + 1
    /\ \E succeeds \in BOOLEAN :
         LET r == UploadResult(dataUri[1], succeeds)
         IN /\ asset' = r.asset
            /\ published' = published \o r.published
            /\ error' = r.error
            /\ pc' = IF r.error = "" THEN "write" ELSE "error"
    /\ UNCHANGED <<input, fname, assets, dataUri, archiveName, request, stream,
                   outputs, output, listCalls, buildCalls, channelOpen,
                   rpcCalls>>
    /\ UNCHANGED <<Others, fsVars>>

\* Lines 210-218 and 267-275
WriteArtifact ==
    /\ pc = "write"
    /\ outputs' = Append(outputs,
                         IF input.archive
                         THEN [directory |-> <<>>, filename |-> archiveName,
                               objref |-> asset, archive |-> TRUE,
                               text |-> ArchiveCreatedText]
                         ELSE [directory |-> Directory, filename |-> fname,
                               objref |-> asset, archive |-> FALSE,
                               text |-> input.content])
    /\ pc' = "finalize"
    /\ UNCHANGED <<input, fname, assets, dataUri, archiveName, request, stream,
                   error, asset, output, listCalls, buildCalls, channelOpen,
                   rpcCalls, uploadCalls, published>>
    /\ UNCHANGED <<Others, fsVars>>

\* Lines 279-281
Finalize ==
    /\ pc = "finalize"
    /\ output' = finalize(outputs)
    /\ pc' = "done"
    /\ UNCHANGED <<input, fname, assets, dataUri, archiveName, request, stream,
                   error, asset, outputs, listCalls, buildCalls, channelOpen,
                   rpcCalls, uploadCalls, published>>
    /\ UNCHANGED <<Others, fsVars>>

Next ==
    \/ ProcessBegin
    \/ GetSessionAssets
    \/ BuildArchive
    \/ WriteNoFiles
    \/ UnsupportedExport
    \/ OpenChannel
    \/ GetWordProcessor
    \/ EncodeDirect
    \/ FallThrough
    \/ UploadAsset
    \/ WriteArtifact
    \/ Finalize

(***************************************************************************)
(* SpecChat: MessagesProcessor.process over the calls of one session       *)
(***************************************************************************)
\* The session data is an option: None for a record without "chat_history".
ChatRoles == {"user", "system"}
ChatTexts == {<<"a">>, <<"b">>}
ChatMessages == [role : ChatRoles, message : ChatTexts]
MessageLists == SeqsUpTo(ChatMessages, MaxMessages)
DeltaTexts == {<<"x">>, <<"y", "z">>}
DeltaLists == SeqsUpTo(DeltaTexts, MaxDeltas)
SystemMessage == <<"You are a helpful assistant.">>

\* The fields MessagesOutput declares (lines 60-61).
MessagesOutputFields == {"result"}

\* process_session_data(session_data), line 148
process_session_data(data) == IF data # None THEN data[1] ELSE <<>>

\* session_data_to_persist(), lines 150-153
session_data_to_persist(retain, history) ==
    IF retain THEN Some(history) ELSE None

\* Lines 162-172: the messages sent to the model.
RequestMessages(history, inputs) ==
    <<[role |-> "system", content |-> SystemMessage]>>
        \o [i \in 1..Len(history) |->
              [role |-> history[i].role, content |-> history[i].message]]
        \o [i \in 1..Len(inputs) |->
              [role |-> inputs[i].role, content |-> inputs[i].message]]

\* The output stream's finalize over the text deltas written: one
\* MessagesOutput whose result is their concatenation.
FinalizeDeltas(deltas) ==
    LET upto[k \in 0..Len(deltas)] ==
            IF k = 0 THEN <<>> ELSE upto[k - 1] \o deltas[k]
    IN [result |-> upto[Len(deltas)]]

\* Lines 195-199: the history after the call, and the exception raised while
\* it was extended ("" for none): the assistant entry reads output.message.
RetainedHistory(history, inputs, out) ==
    LET withInputs == history \o [i \in 1..Len(inputs) |->
                                    [role |-> inputs[i].role,
                                     message |-> inputs[i].message]]
    IN IF "message" \in MessagesOutputFields
       THEN [history |-> Append(withInputs,
                                [role |-> "assistant", message |-> out.result]),
             error |-> ""]
       ELSE [history |-> withInputs, error |-> "AttributeError: message"]

ChatInit ==
    /\ session_data = None
    /\ retain_history \in BOOLEAN
    /\ chat_history = <<>>
    /\ messages = <<>>
    /\ sent = <<>>
    /\ written = <<>>
    /\ chatOutput = None
    /\ chatPc = "idle"
    /\ chatError = ""
    /\ historyBefore = <<>>
    /\ calls = 0

NotChat == <<codecVars, mimeVars, fsVars, builderVars, procVars>>

\* A processor is built for the call: the session data is loaded and the
\* input is set.
ChatBegin ==
    /\ chatPc = "idle"
    /\ calls < MaxCalls
    /\ calls' = calls + 1
    /\ messages' \in MessageLists
    /\ chat_history' = process_session_data(session_data)
    /\ historyBefore' = process_session_data(session_data)
    /\ sent' = <<>>
    /\ written' = <<>>
    /\ chatOutput' = None
    /\ chatError' = ""
    /\ chatPc' = "begun"
    /\ UNCHANGED <<session_data, retain_history>>
    /\ UNCHANGED NotChat

\* Lines 158-160: no deployment config for the model.
ChatNoDeployment ==
    /\ chatPc = "begun"
    /\ chatError' = "Exception: Model deployment config not found"
    /\ chatPc' = "error"
    /\ UNCHANGED <<session_data, retain_history, chat_history, messages, sent,
                   written, chatOutput, historyBefore, calls>>
    /\ UNCHANGED NotChat

\* Lines 162-191: the request is sent and every entry of the response
\* stream is written to the output stream.
ChatComplete ==
    /\ chatPc = "begun"
    /\ sent' = RequestMessages(chat_history, messages)
    /\ written' \in DeltaLists
    /\ chatPc' = "streamed"
    /\ UNCHANGED <<session_data, retain_history, chat_history, messages,
                   chatOutput, chatError, historyBefore, calls>>
    /\ UNCHANGED NotChat

\* Line 193
ChatFinalize ==
    /\ chatPc = "streamed"
    /\ chatOutput' = Some(FinalizeDeltas(written))
    /\ chatPc' = "finalized"
    /\ UNCHANGED <<session_data, retain_history, chat_history, messages, sent,
                   written, chatError, historyBefore, calls>>
    /\ UNCHANGED NotChat

\* Lines 195-201 with retain_history set
ChatRetain ==
    /\ chatPc = "finalized"
    /\ retain_history
    /\ LET r == RetainedHistory(chat_history, messages, chatOutput[1])
       IN /\ chat_history' = r.history
          /\ chatError' = r.error
          /\ chatPc' = IF r.error = "" THEN "returned" ELSE "error"
    /\ UNCHANGED <<session_data, retain_history, messages, sent, written,
                   chatOutput, historyBefore, calls>>
    /\ UNCHANGED NotChat

\* Lines 195 and 201 with retain_history not set
ChatReturn ==
    /\ chatPc = "finalized"
    /\ ~retain_history
    /\ chatPc' = "returned"
    /\ UNCHANGED <<session_data, retain_history, chat_history, messages, sent,
                   written, chatOutput, chatError, historyBefore, calls>>
    /\ UNCHANGED NotChat

\* The host stores what session_data_to_persist returns after a call that
\* returned.
ChatPersist ==
    /\ chatPc = "returned"
    /\ session_data' = session_data_to_persist(retain_history, chat_history)
    /\ chatPc' = "idle"
    /\ UNCHANGED <<retain_history, chat_history, messages, sent, written,
                   chatOutput, chatError, historyBefore, calls>>
    /\ UNCHANGED NotChat

\* After a call that raised the session goes on with what was stored before.
ChatAbandon ==
    /\ chatPc = "error"
    /\ calls < MaxCalls
    /\ chatPc' = "idle"
    /\ UNCHANGED <<session_data, retain_history, chat_history, messages, sent,
                   written, chatOutput, chatError, historyBefore, calls>>
    /\ UNCHANGED NotChat

ChatNext ==
    \/ ChatBegin
    \/ ChatNoDeployment
    \/ ChatComplete
    \/ ChatFinalize
    \/ ChatRetain
    \/ ChatReturn
    \/ ChatPersist
    \/ ChatAbandon

(***************************************************************************)
(* Specifications                                                          *)
(***************************************************************************)
Init == ProcInit /\ FsInit /\ CodecIdle /\ MimeIdle /\ BuilderIdle /\ ChatIdle

Spec == Init /\ [][Next]_vars

InitChat ==
    ChatInit /\ FsInit /\ CodecIdle /\ MimeIdle /\ BuilderIdle /\ ProcIdle

SpecChat == InitChat /\ [][ChatNext]_vars

InitCodec == CodecInit /\ MimeIdle /\ FsInit /\ BuilderIdle /\ ProcIdle /\ ChatIdle

SpecCodec == InitCodec /\ [][CodecNext]_vars

InitArchive == ArchiveInit /\ FsInit /\ CodecIdle /\ MimeIdle /\ ProcIdle /\ ChatIdle

SpecArchive == InitArchive /\ [][ArchiveNext]_vars

InitMime == MimeInit /\ CodecIdle /\ FsInit /\ BuilderIdle /\ ProcIdle /\ ChatIdle

SpecMime == InitMime /\ [][MimeNext]_vars

(***************************************************************************)
(* Properties                                                               *)
(***************************************************************************)
\* Neither of the two delimiters of the format occurs in the text.
DelimiterFree(s) == \A i \in 1..Len(s) : s[i] \notin {";", ","}

\* C8 as stated: decoding the encoded URI gives back (M, F, P) for every
\* payload, mime type and filename.
C8_RoundTripAll ==
    cpc = "decoded" =>
        /\ cDecoded.ok
        /\ cDecoded.mime = cMime
        /\ cDecoded.name = cName
        /\ cDecoded.data = cPayload

\* C8 amended: the round trip holds for every payload when the mime type
\* and the filename hold no ';' and no ',' and the filename is absent or
\* non-empty.
C8_RoundTripDelimiterFree ==
    (/\ cpc = "decoded"
     /\ DelimiterFree(cMime)
     /\ (cName = None \/ (Truthy(cName) /\ DelimiterFree(cName[1])))) =>
        /\ cDecoded.ok
        /\ cDecoded.mime = cMime
        /\ cDecoded.name = cName
        /\ cDecoded.data = cPayload

C8_Witness ==
    /\ cpc = "decoded"
    /\ cMime = TextPlain
    /\ cName = Some(<<"a", "a">>)
    /\ Len(cPayload) = 2
    /\ StartsWith(cUri, DataPrefix \o TextPlain \o NameSegment)
    /\ cDecoded.data = cPayload

\* The filename has an extension: a dot with text after it.
HasExtension(filename) ==
    /\ Find(filename, <<".">>) # 0
    /\ LastDotPart(filename) # <<>>

TableExts == {Txt, Html, Css, Js, Json, Xml, Csv, Tsv, Md}

\* C9 as stated: a given mime type is kept; an absent one is resolved from
\* the table for the nine extensions and to application/octet-stream for
\* every other filename, a filename without an extension included; the mime
\* type of the direct path's data URI is never empty or undefined.
C9_MimeResolution ==
    /\ (mpc \in {"validated", "encoded"} /\ Truthy(mRaw.mimetype)) =>
           mInput.mimetype = mRaw.mimetype
    /\ (mpc \in {"validated", "encoded"} /\ ~Truthy(mRaw.mimetype)
          /\ Truthy(mRaw.filename)) =>
           mInput.mimetype =
               IF HasExtension(mRaw.filename[1])
                    /\ LastDotPart(mRaw.filename[1]) \in TableExts
               THEN Some(_mime_type_from_file_ext(LastDotPart(mRaw.filename[1])))
               ELSE Some(AppOctetStream)
    /\ mpc = "encoded" =>
           /\ DecodeDataUri(mUri).ok
           /\ DecodeDataUri(mUri).mime \notin {<<>>, NoneText}

\* C10 as stated: with retain_history set, a call whose response was
\* finalized returns with the history extended by its input messages in
\* order and one assistant entry holding the finalized response, the earlier
\* entries untouched; without retain_history the history is left as it was
\* and session_data_to_persist returns the empty record.
C10_ChatHistory ==
    /\ (retain_history /\ chatOutput # None /\ chatPc \in {"returned", "error"}) =>
          /\ chatPc = "returned"
          /\ chat_history =
                historyBefore
                  \o [i \in 1..Len(messages) |->
                        [role |-> messages[i].role, message |-> messages[i].message]]
                  \o <<[role |-> "assistant", message |-> chatOutput[1].result]>>
    /\ (~retain_history /\ chatPc \in {"begun", "streamed", "finalized", "returned"}) =>
          /\ chat_history = historyBefore
          /\ session_data_to_persist(retain_history, chat_history) = None

\* An entry name is inside the directory scope.
InScope(name, scope) == scope = <<>> \/ StartsWith(name, scope)

NoSideEffects ==
    /\ listCalls = 0
    /\ buildCalls = 0
    /\ ~channelOpen
    /\ rpcCalls = 0
    /\ uploadCalls = 0
    /\ outputs = <<>>

InvalidCase ==
    /\ pc # "idle"
    /\ \/ Truthy(Some(input.content)) /\ input.archive
       \/ ~Truthy(Some(input.content)) /\ ~input.archive

\* C1 as stated: a call with both content and archive, or with neither,
\* ends in an InvalidRequest error, and nothing was listed, built, converted,
\* published or written before.
C1_InvalidRequestRejected ==
    InvalidCase =>
        /\ NoSideEffects
        /\ pc \in {"done", "error"} => (pc = "error" /\ error = "InvalidRequest")

NoEntryInScope ==
    \/ assets = None
    \/ \A i \in 1..Len(assets[1]) : ~InScope(assets[1][i].name, Directory)

NoFilesOutput ==
    [directory |-> Directory, filename |-> fname, objref |-> None,
     archive |-> TRUE, text |-> NoFilesText]

\* C2 as stated: on the archive path, when no entry of the session listing
\* is inside the directory scope, the call returns the "no files found"
\* result and publish is never invoked.
C2_EmptyScopeNeverPublished ==
    (/\ ArchiveBranch
     /\ pc \in {"listed", "upload", "write", "finalize", "done", "error"}
     /\ NoEntryInScope) =>
        /\ uploadCalls = 0
        /\ pc # "error"
        /\ pc = "done" => outputs = <<NoFilesOutput>>

UnsupportedCase ==
    /\ ContentBranch
    /\ Truthy(input.export_as)
    /\ input.export_as[1] # Pdf

\* C3 as stated: on the content path with an export_as other than PDF the
\* call ends in the unsupported-export error, with no channel opened, no
\* conversion request sent, nothing published and nothing written.
C3_UnsupportedExportFailsFast ==
    (UnsupportedCase /\ pc \notin {"idle", "dispatch"}) =>
        /\ pc = "error"
        /\ error = "ValueError: Unsupported export_as type"
        /\ ~channelOpen
        /\ rpcCalls = 0
        /\ uploadCalls = 0
        /\ outputs = <<>>

\* C4 as stated: on the conversion path the data URI published wraps the
\* first blob of the first response message of the stream.
C4_FirstBlobOfFirstResponse ==
    (/\ ContentBranch
     /\ input.export_as = Some(Pdf)
     /\ published # <<>>) =>
        published[1] = create_data_uri(stream[1][1], Some(AppPdf), TRUE,
                                       Some(request.filename))

\* The entries of the listing inside the scope of builder b.
ScopedEntries(b) ==
    {i \in 1..Len(listing) : InScope(listing[i].name, bScope[b])}

C6_WorkspaceGone ==
    \A b \in Builders :
        bpc[b] \in {"returned", "raised"} =>
            /\ bId[b] \notin tmpDirs
            /\ bId[b] \notin DOMAIN tmpZips

\* The outputs written that carry a reference.
Artifacts == SelectSeq(outputs, LAMBDA o : o.objref # None)

\* The archive path met an entry inside the scope that does not decode.
UndecodableEntryInScope ==
    /\ ArchiveBranch
    /\ assets # None
    /\ \E i \in 1..Len(assets[1]) :
          /\ InScope(assets[1][i].name, Directory)
          /\ ~DecodeDataUri(assets[1][i].data_uri).ok

\* C7: at every point of a call at most one Artifact has been written and
\* never more than publishes have succeeded; the Artifact carries the
\* reference of the publish of the whole data URI; a call that fails, at an
\* entry that does not decode, in the conversion or in the publish, writes
\* no Artifact.
C7_ArtifactOnlyAfterPublish ==
    /\ Len(Artifacts) <= 1
    /\ Len(Artifacts) <= Len(published)
    /\ Len(Artifacts) = 1 =>
          /\ published = <<dataUri[1]>>
          /\ Artifacts[1].objref = Some(ObjRef)
    /\ pc = "error" => Artifacts = <<>>
    /\ UndecodableEntryInScope => Artifacts = <<>>
    /\ uploadCalls > Len(published) => Artifacts = <<>>

C7_Witness ==
    /\ pc = "done"
    /\ input.archive
    /\ Len(Artifacts) = 1
    /\ Len(assets[1]) = 2
    /\ output = Some(Artifacts[1])

====
